---- MODULE Spec2Model ----
(***************************************************************************)
(* Model of the autocomplete engine of "word serch/autocomplete.cpp":      *)
(* a central dictionary (dict, freqs, wordSeen, wordToIndex), a trie whose *)
(* nodes carry a terminal word index and a bounded top-K list of word      *)
(* indices, and the operations insert, updateFrequency, remove, getTopK,   *)
(* saveToFile, loadFromFile and setPerNodeK.                               *)
(*                                                                         *)
(* Strings are sequences of ASCII codes, so that std::string's operator<   *)
(* (byte-wise lexicographic) and the text format of the keywords file      *)
(* ("<word> <freq>\n") are modelled by what they do.                       *)
(* The trie is a function from a node's path (the characters from the      *)
(* root) to the node's fields; a node has a child c exactly when the path  *)
(* extended by c is in the domain.                                         *)
(***************************************************************************)
EXTENDS Integers, Sequences, FiniteSets, TLC

VARIABLES
    dict,          \* index -> word                  (vector<string>)
    freqs,         \* index -> frequency             (vector<long long>)
    wordSeen,      \* index -> seen flag             (vector<char>)
    wordToIndex,   \* word -> index                  (unordered_map)
    root,          \* path -> [wordIndex, topK]      (the tree of TrieNode)
    perNodeK,      \* configured per-node capacity
    pc,            \* position of main: "load" before loadFromFile, then "run"
    appended,      \* what insert has written to the append target (ios::app)
    removed,       \* history: words removed and not inserted/updated since
    ret,           \* what the last call returned: "void", "true", "false", "list"
    res,           \* the list the last call returned (empty when it returned none)
    io,            \* history: what the last call did with its file, "none" if nothing
    saved,         \* the text saveToFile has written to its target
    input,         \* history: the text the last call read from its file, if any
    feedEngine,    \* feed.cpp: the FeedEngine of main (graph.adj, posts, userPosts, nextPostId)
    feedCall       \* feed.cpp: the last getFeed call, [userId, K, res]

wordVars == <<dict, freqs, wordSeen, wordToIndex, root, perNodeK, pc, appended, removed, ret, res,
              io, saved, input>>
feedVars == <<feedEngine, feedCall>>
vars == <<dict, freqs, wordSeen, wordToIndex, root, perNodeK, pc, appended, removed, ret, res, io,
          saved, input, feedEngine, feedCall>>

-----------------------------------------------------------------------------
(* Bounds of the model *)

MaxK == 2          \* largest per-node capacity tried
MaxFreq == 2       \* largest frequency a word reaches
MaxAppend == 2     \* most lines written to the append target

(* Characters *)
SP == 32
NL == 10
MINUS == 45
PLUS == 43
ZERO == 48
NINE == 57

IsSpace(ch) == ch \in {32, 9, 10, 11, 12, 13}
IsDigit(ch) == ch >= ZERO /\ ch <= NINE

(* The keywords of the model: "car", "cart", "cat" *)
car == <<99, 97, 114>>
cart == <<99, 97, 114, 116>>
cat == <<99, 97, 116>>
Words == {car, cart, cat}

Min2(a, b) == IF a < b THEN a ELSE b
Max2(a, b) == IF a > b THEN a ELSE b

(* the first n characters of s *)
Take(s, n) == SubSeq(s, 1, n)

(* every prefix of s, the empty one and s included *)
PrefixesOf(s) == {Take(s, n) : n \in 0..Len(s)}

IsPrefixOf(p, s) == Len(p) <= Len(s) /\ Take(s, Len(p)) = p

(* std::string operator< : byte-wise lexicographic, a proper prefix is less *)
StrLess(a, b) ==
    \E k \in 1..(Min2(Len(a), Len(b)) + 1) :
        /\ \A i \in 1..(k - 1) : a[i] = b[i]
        /\ IF k > Len(a) THEN k <= Len(b)
           ELSE IF k > Len(b) THEN FALSE
           ELSE a[k] < b[k]

-----------------------------------------------------------------------------
(* The engine as a value, so that operations compose *)

Eng == [dict |-> dict, freqs |-> freqs, wordSeen |-> wordSeen,
        wordToIndex |-> wordToIndex, root |-> root, perNodeK |-> perNodeK]

EmptyFn == [x \in {} |-> 0]

NewNode == [wordIndex |-> -1, topK |-> <<>>]

(* AutocompleteEngine(perNodeK): only the root node, empty dictionary *)
NewEngine(k) ==
    [dict |-> EmptyFn, freqs |-> EmptyFn, wordSeen |-> EmptyFn,
     wordToIndex |-> EmptyFn, root |-> [p \in {<<>>} |-> NewNode],
     perNodeK |-> k]

DictSize(e) == Cardinality(DOMAIN e.dict)

(* push_back on a vector indexed from 0 *)
PushBack(v, x) ==
    LET n == Cardinality(DOMAIN v)
    IN [i \in 0..n |-> IF i < n THEN v[i] ELSE x]

(* the comparison with the tie-break on the word reversed *)
higher_TieDescending(e, a, b) ==
    LET fa == IF a >= 0 /\ a < Cardinality(DOMAIN e.freqs) THEN e.freqs[a] ELSE 0
        fb == IF b >= 0 /\ b < Cardinality(DOMAIN e.freqs) THEN e.freqs[b] ELSE 0
    IN IF fa # fb THEN fa > fb
       ELSE StrLess(e.dict[b], e.dict[a])

(* RankHelper::higher: true iff a comes before b *)
higher(e, a, b) ==
    LET fa == IF a >= 0 /\ a < Cardinality(DOMAIN e.freqs) THEN e.freqs[a] ELSE 0
        fb == IF b >= 0 /\ b < Cardinality(DOMAIN e.freqs) THEN e.freqs[b] ELSE 0
    IN IF fa # fb THEN fa > fb
       ELSE StrLess(e.dict[a], e.dict[b])

(* insertion of x before the first element it ranks above *)
RECURSIVE InsertRanked(_, _, _)
InsertRanked(e, s, x) ==
    IF s = <<>> THEN <<x>>
    ELSE IF higher(e, x, Head(s)) THEN <<x>> \o s
    ELSE <<Head(s)>> \o InsertRanked(e, Tail(s), x)

(* std::sort(v, higher): the order is total on distinct indices *)
RECURSIVE SortRanked(_, _)
SortRanked(e, v) ==
    IF v = <<>> THEN <<>>
    ELSE InsertRanked(e, SortRanked(e, Tail(v)), Head(v))

InSeq(x, v) == \E i \in 1..Len(v) : v[i] = x

(* v.erase(find(v, x), v.end()): everything from the first occurrence on goes *)
EraseFirst_ToEnd(v, x) ==
    IF ~InSeq(x, v) THEN v
    ELSE Take(v, (CHOOSE i \in 1..Len(v) : v[i] = x /\ \A j \in 1..(i - 1) : v[j] # x) - 1)

(* v.erase(find(v, x)): the first occurrence goes *)
RECURSIVE EraseFirst(_, _)
EraseFirst(v, x) ==
    IF v = <<>> THEN <<>>
    ELSE IF Head(v) = x THEN Tail(v)
    ELSE <<Head(v)>> \o EraseFirst(Tail(v), x)

(* ensureWordIndex without the lookup: a new index at every call *)
ensureWordIndex_Again(e, word) ==
    LET idx == DictSize(e)
    IN [e |-> [e EXCEPT !.dict = PushBack(e.dict, word),
                        !.freqs = PushBack(e.freqs, 0),
                        !.wordSeen = PushBack(e.wordSeen, FALSE),
                        !.wordToIndex = [w \in DOMAIN e.wordToIndex \cup {word} |->
                                            IF w = word THEN idx ELSE e.wordToIndex[w]]],
        idx |-> idx]

(* ensureWordIndex: the index of word, allocated if the word is new *)
ensureWordIndex(e, word) ==
    IF word \in DOMAIN e.wordToIndex
    THEN [e |-> e, idx |-> e.wordToIndex[word]]
    ELSE LET idx == DictSize(e)
         IN [e |-> [e EXCEPT !.dict = PushBack(e.dict, word),
                             !.freqs = PushBack(e.freqs, 0),
                             !.wordSeen = PushBack(e.wordSeen, FALSE),
                             !.wordToIndex = [w \in DOMAIN e.wordToIndex \cup {word} |->
                                                 IF w = word THEN idx ELSE e.wordToIndex[w]]],
             idx |-> idx]

(* the loop body without the resize *)
UpdateNodeTopK_NoTrim(e, node, idx) ==
    LET v1 == IF InSeq(idx, node.topK) THEN node.topK ELSE Append(node.topK, idx)
    IN [node EXCEPT !.topK = SortRanked(e, v1)]

(* the loop body without the re-sort *)
UpdateNodeTopK_NoSort(e, node, idx) ==
    LET v1 == IF InSeq(idx, node.topK) THEN node.topK ELSE Append(node.topK, idx)
        v3 == IF Len(v1) > e.perNodeK THEN Take(v1, e.perNodeK) ELSE v1
    IN [node EXCEPT !.topK = v3]

(* the body that leaves a full list alone when idx is not in it *)
UpdateNodeTopK_SkipFull(e, node, idx) ==
    LET full == Len(node.topK) >= e.perNodeK /\ ~InSeq(idx, node.topK)
        v1 == IF InSeq(idx, node.topK) \/ full THEN node.topK ELSE Append(node.topK, idx)
        v2 == SortRanked(e, v1)
        v3 == IF Len(v2) > e.perNodeK THEN Take(v2, e.perNodeK) ELSE v2
    IN [node EXCEPT !.topK = v3]

(* the body that pushes idx without looking for it first *)
UpdateNodeTopK_AlwaysPush(e, node, idx) ==
    LET v1 == Append(node.topK, idx)
        v2 == SortRanked(e, v1)
        v3 == IF Len(v2) > e.perNodeK THEN Take(v2, e.perNodeK) ELSE v2
    IN [node EXCEPT !.topK = v3]

(* the body of updateTopKForWord's loop at one node *)
UpdateNodeTopK(e, node, idx) ==
    LET v1 == IF InSeq(idx, node.topK) THEN node.topK ELSE Append(node.topK, idx)
        v2 == SortRanked(e, v1)
        v3 == IF Len(v2) > e.perNodeK THEN Take(v2, e.perNodeK) ELSE v2
    IN [node EXCEPT !.topK = v3]

(* the update that offers idx to every node of the trie, not only to the
   nodes on the path of word *)
updateTopKForWord_AllNodes(e, word, idx) ==
    LET path == PrefixesOf(word)
        old(p) == IF p \in DOMAIN e.root THEN e.root[p] ELSE NewNode
        upd(p) == IF Len(p) >= 1 THEN UpdateNodeTopK(e, old(p), idx) ELSE old(p)
        fin(p) == IF p = word THEN [upd(p) EXCEPT !.wordIndex = idx] ELSE upd(p)
    IN [e EXCEPT !.root = [p \in DOMAIN e.root \cup path |-> fin(p)]]

(* the update that offers idx to the root as well, before the first step down *)
updateTopKForWord_FromRoot(e, word, idx) ==
    LET path == PrefixesOf(word)
        old(p) == IF p \in DOMAIN e.root THEN e.root[p] ELSE NewNode
        upd(p) == UpdateNodeTopK(e, old(p), idx)
        fin(p) == IF p = word THEN [upd(p) EXCEPT !.wordIndex = idx] ELSE upd(p)
    IN [e EXCEPT !.root = [p \in DOMAIN e.root \cup path |->
                              IF p \in path THEN fin(p) ELSE e.root[p]]]

(* updateTopKForWord: walk the path of word from the root, creating nodes;
   every node entered (the root is never entered) gets idx into its top-K;
   the last node gets wordIndex = idx *)
updateTopKForWord(e, word, idx) ==
    LET path == PrefixesOf(word)
        old(p) == IF p \in DOMAIN e.root THEN e.root[p] ELSE NewNode
        upd(p) == IF Len(p) >= 1 THEN UpdateNodeTopK(e, old(p), idx) ELSE old(p)
        fin(p) == IF p = word THEN [upd(p) EXCEPT !.wordIndex = idx] ELSE upd(p)
    IN [e EXCEPT !.root = [p \in DOMAIN e.root \cup path |->
                              IF p \in path THEN fin(p) ELSE e.root[p]]]

(* the longest prefix of word whose whole path exists in the trie *)
WalkLen(e, word) ==
    CHOOSE n \in 0..Len(word) :
        /\ \A m \in 0..n : Take(word, m) \in DOMAIN e.root
        /\ (n < Len(word) => Take(word, n + 1) \notin DOMAIN e.root)

PathExists(e, word) == WalkLen(e, word) = Len(word)

(* the erase at the word's own node only *)
removeIndexFromPath_LastOnly(e, word, idx) ==
    LET n == WalkLen(e, word)
    IN [e EXCEPT !.root = [p \in DOMAIN e.root |->
                              IF Len(p) >= 1 /\ Len(p) = n /\ IsPrefixOf(p, word)
                              THEN [e.root[p] EXCEPT !.topK = EraseFirst(e.root[p].topK, idx)]
                              ELSE e.root[p]]]

(* removeIndexFromPath: erase idx from the top-K of every node entered,
   stopping at the first missing child *)
removeIndexFromPath(e, word, idx) ==
    LET n == WalkLen(e, word)
    IN [e EXCEPT !.root = [p \in DOMAIN e.root |->
                              IF Len(p) >= 1 /\ Len(p) <= n /\ IsPrefixOf(p, word)
                              THEN [e.root[p] EXCEPT !.topK = EraseFirst(e.root[p].topK, idx)]
                              ELSE e.root[p]]]

(* insertIntoTrie (the load path) *)
insertIntoTrie(e, word, idx) ==
    LET e1 == [e EXCEPT !.root = [p \in DOMAIN e.root \cup PrefixesOf(word) |->
                                     LET nd == IF p \in DOMAIN e.root THEN e.root[p] ELSE NewNode
                                     IN IF p = word THEN [nd EXCEPT !.wordIndex = idx] ELSE nd]]
        e2 == updateTopKForWord(e1, word, idx)
    IN [e2 EXCEPT !.wordSeen[idx] = TRUE]

(* insert(keyword, freq, autosaveAppendFile): the engine afterwards *)
insert(e, keyword, freq) ==
    IF keyword = <<>> THEN e
    ELSE LET r == ensureWordIndex(e, keyword)
             idx == r.idx
             e1 == [r.e EXCEPT !.freqs[idx] = @ + freq, !.wordSeen[idx] = TRUE]
         IN updateTopKForWord(e1, keyword, idx)

(* insert's isNew, read after ensureWordIndex and before the increment *)
isNew(e, keyword) ==
    LET r == ensureWordIndex(e, keyword)
    IN /\ r.e.freqs[r.idx] = 0
       /\ r.e.dict[r.idx] = keyword
       /\ ~r.e.wordSeen[r.idx]

(* updateFrequency(keyword, newFreq) *)
updateFrequency(e, keyword, newFreq) ==
    IF keyword = <<>> THEN e
    ELSE LET r == ensureWordIndex(e, keyword)
             idx == r.idx
             e1 == [r.e EXCEPT !.freqs[idx] = newFreq, !.wordSeen[idx] = TRUE]
         IN updateTopKForWord(e1, keyword, idx)

(* remove(keyword) that looks the keyword up with ensureWordIndex *)
remove_AllocUnknown(e, keyword) ==
    IF keyword = <<>> THEN e
    ELSE LET r == ensureWordIndex(e, keyword)
             idx == r.idx
             e1 == [r.e EXCEPT !.freqs[idx] = 0, !.wordSeen[idx] = FALSE]
         IN IF ~PathExists(e1, keyword) THEN e1
            ELSE removeIndexFromPath(
                     [e1 EXCEPT !.root[keyword].wordIndex = -1], keyword, idx)

(* remove(keyword) that leaves wordIndex at the node of the keyword *)
remove_KeepMarker(e, keyword) ==
    IF keyword = <<>> THEN e
    ELSE IF keyword \notin DOMAIN e.wordToIndex THEN e
    ELSE LET idx == e.wordToIndex[keyword]
             e1 == [e EXCEPT !.freqs[idx] = 0, !.wordSeen[idx] = FALSE]
         IN IF ~PathExists(e1, keyword) THEN e1
            ELSE removeIndexFromPath(e1, keyword, idx)

(* remove(keyword) that also deletes the node of the keyword when it has no
   children *)
remove_Prune(e, keyword) ==
    IF keyword = <<>> THEN e
    ELSE IF keyword \notin DOMAIN e.wordToIndex THEN e
    ELSE LET idx == e.wordToIndex[keyword]
             e1 == [e EXCEPT !.freqs[idx] = 0, !.wordSeen[idx] = FALSE]
             e2 == IF ~PathExists(e1, keyword) THEN e1
                   ELSE removeIndexFromPath(
                            [e1 EXCEPT !.root[keyword].wordIndex = -1], keyword, idx)
             leaf == /\ keyword \in DOMAIN e2.root
                     /\ \A p \in DOMAIN e2.root : p # keyword => ~IsPrefixOf(keyword, p)
         IN IF leaf
            THEN [e2 EXCEPT !.root = [p \in DOMAIN e2.root \ {keyword} |-> e2.root[p]]]
            ELSE e2

(* remove(keyword) *)
remove(e, keyword) ==
    IF keyword = <<>> THEN e
    ELSE IF keyword \notin DOMAIN e.wordToIndex THEN e
    ELSE LET idx == e.wordToIndex[keyword]
             e1 == [e EXCEPT !.freqs[idx] = 0, !.wordSeen[idx] = FALSE]
         IN IF ~PathExists(e1, keyword) THEN e1
            ELSE removeIndexFromPath(
                     [e1 EXCEPT !.root[keyword].wordIndex = -1], keyword, idx)

(* the walk of getTopK that stops at the deepest node there is and answers
   from it *)
getTopK_DeepestNode(e, prefix, K) ==
    IF K <= 0 THEN <<>>
    ELSE LET v == e.root[Take(prefix, WalkLen(e, prefix))].topK
             upto == Min2(K, Len(v))
         IN [i \in 1..upto |-> <<e.dict[v[i]], e.freqs[v[i]]>>]

(* getTopK(prefix, K): the pairs (word, frequency) returned *)
getTopK(e, prefix, K) ==
    IF K <= 0 THEN <<>>
    ELSE IF ~PathExists(e, prefix) THEN <<>>
    ELSE LET v == e.root[prefix].topK
             upto == Min2(K, Len(v))
         IN [i \in 1..upto |-> <<e.dict[v[i]], e.freqs[v[i]]>>]

(* node->children[c] of an unordered_map: the child is created when absent *)
ChildAt(e, path) ==
    IF path \in DOMAIN e.root THEN e
    ELSE [e EXCEPT !.root = [p \in DOMAIN e.root \cup {path} |->
                                IF p = path THEN NewNode ELSE e.root[p]]]

(* the walk of getTopK from the n-th character on: children.count(c) is tested
   before children[c] is taken *)
RECURSIVE getTopKWalk(_, _, _)
getTopKWalk(e, prefix, n) ==
    IF n = Len(prefix) THEN e
    ELSE IF Take(prefix, n + 1) \notin DOMAIN e.root THEN e
    ELSE getTopKWalk(ChildAt(e, Take(prefix, n + 1)), prefix, n + 1)

(* the walk with children[c] taken without the test *)
RECURSIVE getTopKWalk_NoCount(_, _, _)
getTopKWalk_NoCount(e, prefix, n) ==
    IF n = Len(prefix) THEN e
    ELSE getTopKWalk_NoCount(ChildAt(e, Take(prefix, n + 1)), prefix, n + 1)

getTopKAfter_NoCount(e, prefix, K) ==
    IF K <= 0 THEN e ELSE getTopKWalk_NoCount(e, prefix, 0)

(* getTopK is not a const method: the engine after getTopK(prefix, K) *)
getTopKAfter(e, prefix, K) ==
    IF K <= 0 THEN e ELSE getTopKWalk(e, prefix, 0)

(* setPerNodeK(k) *)
setPerNodeK(e, k) == [e EXCEPT !.perNodeK = Max2(1, k)]

-----------------------------------------------------------------------------
(* The keywords file: text, one "<word> <freq>\n" per line *)

(* operator<< of a long long: decimal digits, '-' first when negative *)
RECURSIVE Digits(_)
Digits(n) ==
    IF n < 10 THEN <<ZERO + n>>
    ELSE Digits(n \div 10) \o <<ZERO + (n % 10)>>

FormatInt(n) == IF n < 0 THEN <<MINUS>> \o Digits(0 - n) ELSE Digits(n)

(* fout << word << " " << freq << "\n" *)
FormatLine(word, freq) == word \o <<SP>> \o FormatInt(freq) \o <<NL>>

(* the first position from pos on that holds no whitespace (Len+1 at the end) *)
SkipWs(s, pos) ==
    LET c == {i \in pos..Len(s) : ~IsSpace(s[i])}
    IN IF c = {} THEN Len(s) + 1 ELSE CHOOSE i \in c : \A j \in c : i <= j

(* the first position from pos on that holds whitespace (Len+1 at the end) *)
WordEnd(s, pos) ==
    LET c == {i \in pos..Len(s) : IsSpace(s[i])}
    IN IF c = {} THEN Len(s) + 1 ELSE CHOOSE i \in c : \A j \in c : i <= j

(* the first position from pos on that holds no digit (Len+1 at the end) *)
DigitsEnd(s, pos) ==
    LET c == {i \in pos..Len(s) : ~IsDigit(s[i])}
    IN IF c = {} THEN Len(s) + 1 ELSE CHOOSE i \in c : \A j \in c : i <= j

(* the number written by the digits s[a..b] *)
RECURSIVE DigitsValue(_, _, _)
DigitsValue(s, a, b) ==
    IF b < a THEN 0
    ELSE 10 * DigitsValue(s, a, b - 1) + (s[b] - ZERO)

(* one round of "fin >> word >> freq" from position pos:
   ok is FALSE when the extraction fails (end of input, or no number) *)
ReadRecord(s, pos) ==
    LET p1 == SkipWs(s, pos)
        p2 == WordEnd(s, p1)
        p3 == SkipWs(s, p2)
        signed == p3 <= Len(s) /\ s[p3] \in {MINUS, PLUS}
        p4 == IF signed THEN p3 + 1 ELSE p3
        p5 == DigitsEnd(s, p4)
        mag == DigitsValue(s, p4, p5 - 1)
    IN IF p1 > Len(s) \/ p5 = p4
       THEN [ok |-> FALSE, word |-> <<>>, freq |-> 0, next |-> pos]
       ELSE [ok |-> TRUE, word |-> SubSeq(s, p1, p2 - 1),
             freq |-> IF signed /\ s[p3] = MINUS THEN 0 - mag ELSE mag,
             next |-> p5]

(* the loop of loadFromFile over the text s from position pos *)
RECURSIVE LoadLoop(_, _, _)
LoadLoop(e, s, pos) ==
    LET rec == ReadRecord(s, pos)
    IN IF ~rec.ok THEN e
       ELSE LET r == ensureWordIndex(e, rec.word)
                e1 == [r.e EXCEPT !.freqs[r.idx] = rec.freq]
            IN LoadLoop(insertIntoTrie(e1, rec.word, r.idx), s, rec.next)

(* loadFromFile on a file that opens, with contents s *)
loadFromFile(e, s) == LoadLoop(e, s, 1)

(* insertion of index x into a list of indices sorted by word *)
RECURSIVE InsertByWord(_, _, _)
InsertByWord(e, s, x) ==
    IF s = <<>> THEN <<x>>
    ELSE IF StrLess(e.dict[x], e.dict[Head(s)]) THEN <<x>> \o s
    ELSE <<Head(s)>> \o InsertByWord(e, Tail(s), x)

(* the indices of all words, seen or not, sorted by word *)
RECURSIVE SavedIdxs_All(_, _)
SavedIdxs_All(e, n) ==
    IF n = 0 THEN <<>>
    ELSE InsertByWord(e, SavedIdxs_All(e, n - 1), n - 1)

(* saveToFile's idxs: the seen indices, pushed in index order, sorted by word *)
RECURSIVE SavedIdxs(_, _)
SavedIdxs(e, n) ==
    IF n = 0 THEN <<>>
    ELSE IF e.wordSeen[n - 1] THEN InsertByWord(e, SavedIdxs(e, n - 1), n - 1)
    ELSE SavedIdxs(e, n - 1)

RECURSIVE WriteLines(_, _)
WriteLines(e, idxs) ==
    IF idxs = <<>> THEN <<>>
    ELSE FormatLine(e.dict[Head(idxs)], e.freqs[Head(idxs)]) \o WriteLines(e, Tail(idxs))

(* saveToFile on a file that opens: the text written *)
saveToFile(e) == WriteLines(e, SavedIdxs(e, DictSize(e)))

-----------------------------------------------------------------------------
(* Contents of the keywords file when main starts *)
FileEmpty == <<>>
FileOne == FormatLine(car, 1)
FileTwo == FormatLine(cat, 2) \o FormatLine(car, 2)
InitFiles == {FileEmpty, FileOne, FileTwo}

------------------------------------------------------------------------------
(* The social feed ranking engine of src/soc ranker/feed.cpp.  Users and posts
   are numbers.  Scores are kept in hundredths and their three terms in
   tenths, so that the weights 1.0, 1.2 and 1.5, the factors 1.5 and 3.0 of
   comments and shares and the hop factor 0.6 are whole numbers. *)

MAX_HOPS == 2
W_ENGAGEMENT == 10
W_AFFINITY == 12
W_RECENCY == 15
DAY == 86400

(* the clock of the "feed" command, and the age from which exp(-age/DAY)
   is 0 in a double *)
OldAge == 1000 * DAY
Now == OldAge

(* f with key k set to v *)
Put(f, k, v) == [x \in DOMAIN f \cup {k} |-> IF x = k THEN v ELSE f[x]]

(* FeedEngine() *)
NewFeedEngine == [adj |-> EmptyFn, posts |-> EmptyFn, userPosts |-> EmptyFn, nextPostId |-> 1]

(* SocialGraph::addUser *)
addUser(fe, u) ==
    IF u \in DOMAIN fe.adj THEN fe ELSE [fe EXCEPT !.adj = Put(fe.adj, u, EmptyFn)]

(* SocialGraph::affinity *)
affinity(fe, u, v) ==
    IF u \notin DOMAIN fe.adj THEN 0
    ELSE IF v \notin DOMAIN fe.adj[u] THEN 0
    ELSE fe.adj[u][v]

(* SocialGraph::addInteraction *)
addInteraction(fe, u, v, delta) ==
    LET f1 == addUser(addUser(fe, u), v)
        au == Put(f1.adj[u], v, affinity(f1, u, v) + delta)
        av == Put(f1.adj[v], u, affinity(f1, v, u) + delta)
    IN IF u = v THEN f1
       ELSE [f1 EXCEPT !.adj = Put(Put(f1.adj, u, au), v, av)]

(* SocialGraph::neighbors, as a set *)
neighbors(fe, u) == IF u \in DOMAIN fe.adj THEN DOMAIN fe.adj[u] ELSE {}

(* FeedEngine::createPost *)
createPost(fe, authorId, ts) ==
    LET pid == fe.nextPostId
        own == IF authorId \in DOMAIN fe.userPosts THEN fe.userPosts[authorId] ELSE <<>>
    IN [fe EXCEPT !.posts = Put(fe.posts, pid,
                                [postId |-> pid, authorId |-> authorId, timestamp |-> ts,
                                 likes |-> 0, comments |-> 0, shares |-> 0]),
                  !.userPosts = Put(fe.userPosts, authorId, Append(own, pid)),
                  !.nextPostId = pid + 1]

(* FeedEngine::updateEngagement: the engine afterwards *)
updateEngagement(fe, pid, l, c, s) ==
    IF pid \notin DOMAIN fe.posts THEN fe
    ELSE [fe EXCEPT !.posts[pid].likes = @ + l,
                    !.posts[pid].comments = @ + c,
                    !.posts[pid].shares = @ + s]

(* the members of S in ascending order *)
RECURSIVE AscSeq(_)
AscSeq(S) ==
    IF S = {} THEN <<>>
    ELSE LET m == CHOOSE x \in S : \A y \in S : x <= y
         IN <<m>> \o AscSeq(S \ {m})

(* the loop of bfsUsers on queue q; the distances do not depend on the order
   in which the neighbours of a user are visited *)
RECURSIVE bfsLoop(_, _, _)
bfsLoop(fe, dist, q) ==
    IF q = <<>> THEN dist
    ELSE LET u == Head(q)
         IN IF dist[u] >= MAX_HOPS THEN bfsLoop(fe, dist, Tail(q))
            ELSE LET new == {nb \in neighbors(fe, u) : nb \notin DOMAIN dist}
                     dist1 == [x \in DOMAIN dist \cup new |->
                                  IF x \in DOMAIN dist THEN dist[x] ELSE dist[u] + 1]
                 IN bfsLoop(fe, dist1, Tail(q) \o AscSeq(new))

(* FeedEngine::bfsUsers: user -> hops, for the users within MAX_HOPS of start *)
bfsUsers(fe, start) == bfsLoop(fe, Put(EmptyFn, start, 0), <<start>>)

(* exp(-RECENCY_LAMBDA * age) in tenths, for the ages of the model: 1.0 at
   age 0 and 0 from OldAge on *)
recency(age) == IF age = 0 THEN 10 ELSE 0

(* FeedEngine::computeScore, in hundredths *)
computeScore(fe, viewer, p, dist, now) ==
    LET engScore == p.likes * 10 + p.comments * 15 + p.shares * 30
        aff == IF p.authorId \in DOMAIN dist
               THEN affinity(fe, viewer, p.authorId) *
                        (IF dist[p.authorId] = 2 THEN 6 ELSE 10)
               ELSE 0
        age == Max2(0, now - p.timestamp)
    IN W_ENGAGEMENT * engScore + W_AFFINITY * aff + W_RECENCY * recency(age)

(* the comparison of the priority queue on <<score, pid>>: true iff a sits
   below b, so the top is the lowest score and, among equals, the highest pid *)
cmp(a, b) == IF a[1] # b[1] THEN a[1] > b[1] ELSE a[2] < b[2]

(* minheap.top() *)
HeapTop(h) == CHOOSE t \in h : \A b \in h : b = t \/ cmp(b, t)

(* the body of the loop over the candidates with the first K kept for good *)
Offer_FirstK(h, item, K) ==
    IF Cardinality(h) < K THEN h \cup {item} ELSE h

(* the body of the loop over the candidates: push while the heap holds fewer
   than K, then replace the top by a strictly higher score *)
Offer(h, item, K) ==
    IF Cardinality(h) < K THEN h \cup {item}
    ELSE IF item[1] > HeapTop(h)[1] THEN (h \ {HeapTop(h)}) \cup {item}
    ELSE h

(* the loop over the candidates *)
RECURSIVE OfferAll(_, _, _, _, _, _)
OfferAll(fe, h, cands, userId, K, dist) ==
    IF cands = <<>> THEN h
    ELSE LET pid == Head(cands)
             score == computeScore(fe, userId, fe.posts[pid], dist, Now)
         IN OfferAll(fe, Offer(h, <<score, pid>>, K), Tail(cands), userId, K, dist)

(* the heap popped until it is empty: <<pid, score>>, lowest first *)
RECURSIVE Drain(_)
Drain(h) ==
    IF h = {} THEN <<>>
    ELSE LET t == HeapTop(h) IN <<<<t[2], t[1]>>>> \o Drain(h \ {t})

Reverse(s) == [i \in 1..Len(s) |-> s[Len(s) + 1 - i]]

(* the users of dist that have posts: the others add no candidate *)
Posters(fe, dist) ==
    {u \in DOMAIN dist : u \in DOMAIN fe.userPosts /\ fe.userPosts[u] # <<>>}

(* the candidates when the loop over dist meets the users that have posts in
   this order *)
RECURSIVE CandidatesIn(_, _)
CandidatesIn(fe, order) ==
    IF order = <<>> THEN <<>>
    ELSE (IF Head(order) \in DOMAIN fe.userPosts THEN fe.userPosts[Head(order)] ELSE <<>>)
             \o CandidatesIn(fe, Tail(order))

(* the orders in which an unordered_map with key set S can be iterated *)
RECURSIVE Orders(_)
Orders(S) ==
    IF S = {} THEN {<<>>}
    ELSE UNION {{<<x>> \o o : o \in Orders(S \ {x})} : x \in S}

(* FeedEngine::getFeed: the list returned, when dist is iterated in order *)
getFeed(fe, userId, K, order) ==
    IF K <= 0 \/ userId \notin DOMAIN fe.adj THEN <<>>
    ELSE Reverse(Drain(OfferAll(fe, {}, CandidatesIn(fe, order), userId, K,
                                bfsUsers(fe, userId))))

(* FeedEngine::getFeed: the engine afterwards; userPosts[u] makes an empty
   list for every user of dist that has none *)
getFeedAfter(fe, userId, K) ==
    IF K <= 0 \/ userId \notin DOMAIN fe.adj THEN fe
    ELSE [fe EXCEPT !.userPosts =
              [u \in DOMAIN fe.userPosts \cup DOMAIN bfsUsers(fe, userId) |->
                  IF u \in DOMAIN fe.userPosts THEN fe.userPosts[u] ELSE <<>>]]

NoFeedCall == [userId |-> 0, K |-> 0, res |-> <<>>]

FeedInit ==
    /\ feedEngine = NewFeedEngine
    /\ feedCall = NoFeedCall

SetEng(e) ==
    /\ dict' = e.dict
    /\ freqs' = e.freqs
    /\ wordSeen' = e.wordSeen
    /\ wordToIndex' = e.wordToIndex
    /\ root' = e.root
    /\ perNodeK' = e.perNodeK

FreqOf(e, w) == IF w \in DOMAIN e.wordToIndex THEN e.freqs[e.wordToIndex[w]] ELSE 0

(* no call has been made yet *)
NoCall ==
    /\ ret = "void"
    /\ res = <<>>
    /\ io = "none"
    /\ saved = <<>>
    /\ input = <<>>

(* AutocompleteEngine engine(k): main is about to load *)
Init ==
    /\ \E k \in 1..MaxK :
          /\ dict = NewEngine(k).dict
          /\ freqs = NewEngine(k).freqs
          /\ wordSeen = NewEngine(k).wordSeen
          /\ wordToIndex = NewEngine(k).wordToIndex
          /\ root = NewEngine(k).root
          /\ perNodeK = NewEngine(k).perNodeK
    /\ pc = "load"
    /\ appended = <<>>
    /\ removed = {}
    /\ NoCall
    /\ FeedInit

(* main: engine.loadFromFile(filename), the file opens *)
Load(s) ==
    /\ pc = "load"
    /\ SetEng(loadFromFile(Eng, s))
    /\ pc' = "run"
    /\ ret' = "true"
    /\ res' = <<>>
    /\ input' = s
    /\ io' = "read"
    /\ UNCHANGED <<appended, removed, saved, feedEngine, feedCall>>

(* main: engine.loadFromFile(filename), the file does not open *)
LoadFail ==
    /\ pc = "load"
    /\ pc' = "run"
    /\ ret' = "false"
    /\ res' = <<>>
    /\ input' = <<>>
    /\ io' = "load_failed"
    /\ UNCHANGED <<dict, freqs, wordSeen, wordToIndex, root, perNodeK, appended, removed, saved,
                   feedEngine, feedCall>>

(* the words of the records that a load of s applies *)
LoadedWords(s) == DOMAIN loadFromFile(NewEngine(1), s).wordToIndex

(* engine.loadFromFile(filename) on the engine in use; the file opens *)
Reload(s) ==
    /\ pc = "run"
    /\ SetEng(loadFromFile(Eng, s))
    /\ removed' = removed \ LoadedWords(s)
    /\ ret' = "true"
    /\ res' = <<>>
    /\ input' = s
    /\ io' = "read"
    /\ UNCHANGED <<pc, appended, saved, feedEngine, feedCall>>

(* "add": engine.insert(w, d, file); app says whether an append file is given,
   opens whether that file can be opened; insert returns nothing *)
Insert(w, d, app, opens, maxf) ==
    /\ pc = "run"
    /\ FreqOf(Eng, w) + d >= 0
    /\ FreqOf(Eng, w) + d <= maxf
    /\ app => Len(appended) < MaxAppend
    /\ SetEng(insert(Eng, w, d))
    /\ appended' = IF app /\ isNew(Eng, w) /\ opens
                   THEN Append(appended, FormatLine(w, FreqOf(Eng, w) + d))
                   ELSE appended
    /\ removed' = removed \ {w}
    /\ ret' = "void"
    /\ res' = <<>>
    /\ input' = <<>>
    /\ io' = IF app /\ isNew(Eng, w)
             THEN (IF opens THEN "appended" ELSE "append_failed")
             ELSE "none"
    /\ UNCHANGED <<pc, saved, feedEngine, feedCall>>

(* "update": engine.updateFrequency(w, f) *)
Update(w, f) ==
    /\ pc = "run"
    /\ SetEng(updateFrequency(Eng, w, f))
    /\ removed' = removed \ {w}
    /\ ret' = "void"
    /\ res' = <<>>
    /\ input' = <<>>
    /\ io' = "none"
    /\ UNCHANGED <<pc, appended, saved, feedEngine, feedCall>>

(* "remove": engine.remove(w) *)
Remove(w) ==
    /\ pc = "run"
    /\ SetEng(remove(Eng, w))
    /\ removed' = IF w \in DOMAIN wordToIndex THEN removed \cup {w} ELSE removed
    /\ ret' = "void"
    /\ res' = <<>>
    /\ input' = <<>>
    /\ io' = IF w = <<>> \/ w \notin DOMAIN wordToIndex THEN "no_match" ELSE "none"
    /\ UNCHANGED <<pc, appended, saved, feedEngine, feedCall>>

(* engine.setPerNodeK(k) *)
SetPerNodeK(k) ==
    /\ pc = "run"
    /\ SetEng(setPerNodeK(Eng, k))
    /\ ret' = "void"
    /\ res' = <<>>
    /\ input' = <<>>
    /\ io' = "none"
    /\ UNCHANGED <<pc, appended, removed, saved, feedEngine, feedCall>>

(* the status saveToFile returns without looking at the stream *)
saveStatus_Unchecked(opens) == "true"

(* the status saveToFile returns: false when the stream is not open *)
saveStatus(opens) == IF opens THEN "true" ELSE "false"

(* "save": engine.saveToFile(file), a const method; opens says whether the
   file can be opened for writing *)
SaveToFile(opens) ==
    /\ pc = "run"
    /\ saved' = IF opens THEN saveToFile(Eng) ELSE saved
    /\ ret' = saveStatus(opens)
    /\ res' = <<>>
    /\ input' = <<>>
    /\ io' = IF opens THEN "written" ELSE "save_failed"
    /\ UNCHANGED <<dict, freqs, wordSeen, wordToIndex, root, perNodeK, pc, appended, removed,
                   feedEngine, feedCall>>

(* "suggest": engine.getTopK(p, r) *)
Suggest(p, r) ==
    /\ pc = "run"
    /\ SetEng(getTopKAfter(Eng, p, r))
    /\ ret' = "list"
    /\ res' = getTopK(Eng, p, r)
    /\ input' = <<>>
    /\ io' = "none"
    /\ UNCHANGED <<pc, appended, removed, saved, feedEngine, feedCall>>

Next ==
    \/ \E s \in InitFiles : Load(s)
    \/ LoadFail
    \/ \E w \in Words, d \in (0 - MaxFreq)..MaxFreq : Insert(w, d, FALSE, TRUE, MaxFreq)
    \/ \E w \in Words, f \in 0..MaxFreq : Update(w, f)
    \/ \E w \in Words : Remove(w)
    \/ \E k \in 0..MaxK : SetPerNodeK(k)

(* main with its keywords file: load, then any commands *)
Spec == Init /\ [][Next]_vars

(* An engine constructed with capacity k and used without a load *)
InitRun ==
    /\ \E k \in 1..MaxK :
          /\ dict = NewEngine(k).dict
          /\ freqs = NewEngine(k).freqs
          /\ wordSeen = NewEngine(k).wordSeen
          /\ wordToIndex = NewEngine(k).wordToIndex
          /\ root = NewEngine(k).root
          /\ perNodeK = NewEngine(k).perNodeK
    /\ pc = "run"
    /\ appended = <<>>
    /\ removed = {}
    /\ NoCall
    /\ FeedInit

(* inserts with non-negative deltas and updates only; the capacity stays *)
NextUpsert ==
    \/ \E w \in Words, d \in 0..MaxFreq : Insert(w, d, FALSE, TRUE, MaxFreq)
    \/ \E w \in Words, f \in 0..MaxFreq : Update(w, f)

SpecUpsert == InitRun /\ [][NextUpsert]_vars

(* inserts only, any number per word, none lowering a frequency *)
NextGrow ==
    \E w \in Words, d \in 0..MaxFreq : Insert(w, d, FALSE, TRUE, MaxFreq)

SpecGrow == InitRun /\ [][NextGrow]_vars

(* every word inserted at most once, with its own frequency *)
NextOnce ==
    \E w \in Words \ DOMAIN wordToIndex, d \in 0..MaxFreq : Insert(w, d, FALSE, TRUE, MaxFreq)

SpecOnce == InitRun /\ [][NextOnce]_vars

(* The engine as main constructs it, AutocompleteEngine engine(12), with the
   frequencies 3, 5 and 10 *)
MainK == 12
WideMaxFreq == 10
WideFreqs == {3, 5, 10}

InitWide ==
    /\ dict = NewEngine(MainK).dict
    /\ freqs = NewEngine(MainK).freqs
    /\ wordSeen = NewEngine(MainK).wordSeen
    /\ wordToIndex = NewEngine(MainK).wordToIndex
    /\ root = NewEngine(MainK).root
    /\ perNodeK = NewEngine(MainK).perNodeK
    /\ pc = "run"
    /\ appended = <<>>
    /\ removed = {}
    /\ NoCall
    /\ FeedInit

NextWide ==
    \/ \E w \in Words, d \in WideFreqs : Insert(w, d, FALSE, TRUE, WideMaxFreq)
    \/ \E w \in Words, f \in WideFreqs \cup {0} : Update(w, f)
    \/ \E w \in Words : Remove(w)

SpecWide == InitWide /\ [][NextWide]_vars

(* "add" as main calls it, with the append file, next to update and remove *)
AppendMaxFreq == 1

NextAppend ==
    \/ \E w \in Words, d \in 0..AppendMaxFreq, app \in BOOLEAN, opens \in BOOLEAN :
          Insert(w, d, app, opens, AppendMaxFreq)
    \/ \E w \in Words, f \in 0..AppendMaxFreq : Update(w, f)
    \/ \E w \in Words : Remove(w)

SpecAppend == InitRun /\ [][NextAppend]_vars

(* Keywords files with a record that does not parse *)
CharX == 120
FileBadFreq == FormatLine(car, 1) \o cat \o <<SP, CharX, NL>> \o FormatLine(cart, 2)
FileNoSep == FormatLine(car, 1) \o cat \o <<NL>> \o FormatLine(cart, 2)
FileJunkFreq == car \o <<SP, ZERO + 1, CharX, NL>> \o FormatLine(cat, 2)
LoadFiles == InitFiles \cup {FileBadFreq, FileNoSep, FileJunkFreq}

(* main on a keywords file that may hold records that do not parse *)
NextLoad ==
    \/ \E s \in LoadFiles : Load(s)
    \/ LoadFail
    \/ \E w \in Words, d \in 0..AppendMaxFreq : Insert(w, d, FALSE, TRUE, AppendMaxFreq)
    \/ \E w \in Words : Remove(w)

SpecLoad == Init /\ [][NextLoad]_vars

RemoveTexts == Words \cup {<<>>}

(* main, then any commands and further loads of a keywords file *)
NextReload ==
    \/ \E s \in InitFiles : Load(s)
    \/ LoadFail
    \/ \E w \in Words, d \in 0..AppendMaxFreq : Insert(w, d, FALSE, TRUE, AppendMaxFreq)
    \/ \E w \in Words, f \in 0..AppendMaxFreq : Update(w, f)
    \/ \E w \in RemoveTexts : Remove(w)
    \/ \E s \in InitFiles : Reload(s)

SpecReload == Init /\ [][NextReload]_vars

(* "add", "remove" and "suggest", for prefixes in the trie or not and for
   counts from -1 on *)
QueryPrefixes ==
    UNION {PrefixesOf(w) : w \in Words} \cup {<<CharX>>, Take(car, 1) \o <<CharX>>, cart \o <<CharX>>}
QueryCounts == (0 - 1)..(MaxK + 1)

NextQuery ==
    \/ \E w \in Words, d \in 0..AppendMaxFreq : Insert(w, d, FALSE, TRUE, AppendMaxFreq)
    \/ \E w \in RemoveTexts : Remove(w)
    \/ \E p \in QueryPrefixes, r \in QueryCounts : Suggest(p, r)

SpecQuery == InitRun /\ [][NextQuery]_vars

(* "add", "remove" and "save"; the save target may or may not open *)
SaveWords == {car, cart}

NextSave ==
    \/ \E w \in SaveWords, d \in 0..AppendMaxFreq : Insert(w, d, FALSE, TRUE, AppendMaxFreq)
    \/ \E w \in SaveWords : Remove(w)
    \/ \E opens \in BOOLEAN : SaveToFile(opens)

SpecSave == InitRun /\ [][NextSave]_vars

------------------------------------------------------------------------------
(* The commands of feed.cpp's main *)

MaxPost == 3        \* most posts created
MaxAffinity == 1    \* largest affinity an interaction builds up
MaxLikes == 1       \* most likes a post collects
MaxFeedK == 2       \* largest K asked of getFeed

(* the pairs that interact: the chain 1 - 2 - 3 - 4, and user 1 with itself *)
FeedPairs == {<<1, 2>>, <<2, 3>>, <<3, 4>>, <<1, 1>>}
(* the posts that are made, <<author, timestamp>>: by user 1 now or long ago,
   by user 4 now *)
FeedPosts == {<<1, Now>>, <<1, 0>>, <<4, Now>>}
FeedViewers == {1, 2}

(* "adduser" *)
AddUser(u) ==
    /\ feedEngine' = addUser(feedEngine, u)
    /\ feedCall' = NoFeedCall
    /\ UNCHANGED wordVars

(* "interact" *)
AddInteraction(u, v, delta) ==
    /\ affinity(feedEngine, u, v) + delta <= MaxAffinity
    /\ feedEngine' = addInteraction(feedEngine, u, v, delta)
    /\ feedCall' = NoFeedCall
    /\ UNCHANGED wordVars

(* "post" *)
CreatePost(a, ts) ==
    /\ feedEngine.nextPostId <= MaxPost
    /\ feedEngine' = createPost(feedEngine, a, ts)
    /\ feedCall' = NoFeedCall
    /\ UNCHANGED wordVars

(* "engage" *)
UpdateEngagement(pid, l, c, s) ==
    /\ pid \in DOMAIN feedEngine.posts => feedEngine.posts[pid].likes + l <= MaxLikes
    /\ feedEngine' = updateEngagement(feedEngine, pid, l, c, s)
    /\ feedCall' = NoFeedCall
    /\ UNCHANGED wordVars

(* "feed": engine.getFeed(u, K, now) *)
GetFeed(u, K) ==
    /\ \E order \in Orders(IF K <= 0 \/ u \notin DOMAIN feedEngine.adj
                           THEN {} ELSE Posters(feedEngine, bfsUsers(feedEngine, u))) :
          feedCall' = [userId |-> u, K |-> K, res |-> getFeed(feedEngine, u, K, order)]
    /\ feedEngine' = getFeedAfter(feedEngine, u, K)
    /\ UNCHANGED wordVars

NextFeed ==
    \/ AddUser(1)
    \/ \E pr \in FeedPairs : AddInteraction(pr[1], pr[2], 1)
    \/ \E np \in FeedPosts : CreatePost(np[1], np[2])
    \/ UpdateEngagement(1, 1, 0, 0)
    \/ \E u \in FeedViewers, K \in 0..MaxFeedK : GetFeed(u, K)

SpecFeed == InitWide /\ [][NextFeed]_vars


-----------------------------------------------------------------------------
(* Vocabulary of the properties *)

Known(e) == {i \in DOMAIN e.dict : e.wordSeen[i]}

(* the Ranking Policy, on indices: frequency descending, then text ascending *)
RanksBefore(e, a, b) ==
    \/ e.freqs[a] > e.freqs[b]
    \/ e.freqs[a] = e.freqs[b] /\ StrLess(e.dict[a], e.dict[b])

(* the known terms whose text starts with p *)
Matching(e, p) == {i \in Known(e) : IsPrefixOf(p, e.dict[i])}

(* out is the first min(r, n) of the n known terms matching p, in rank order:
   its k-th entry is the matching term that exactly k-1 matching terms precede *)
IsTopRanked(e, out, p, r) ==
    /\ Len(out) = Min2(r, Cardinality(Matching(e, p)))
    /\ \A k \in 1..Len(out) :
          \E i \in Matching(e, p) :
             /\ out[k] = <<e.dict[i], e.freqs[i]>>
             /\ Cardinality({j \in Matching(e, p) : RanksBefore(e, j, i)}) = k - 1

AllPrefixes == UNION {PrefixesOf(w) : w \in Words}
NonEmptyPrefixes == AllPrefixes \ {<<>>}
Requests == 0..(MaxK + 1)

TextsOf(out) == {out[k][1] : k \in 1..Len(out)}

-----------------------------------------------------------------------------
(* C1 - Sortedness: in every state between calls (so after every insert,
   update, remove and load), every node's top-K list is sorted by the Ranking
   Policy under the current frequencies: of two consecutive entries a, b,
   either a has the higher frequency, or the frequencies are equal and a's
   text is smaller. *)
C1_Sortedness ==
    \A p \in DOMAIN root :
       \A i \in 1..(Len(root[p].topK) - 1) :
          RanksBefore(Eng, root[p].topK[i], root[p].topK[i + 1])

(* a list of two with a tie on frequency, in an order the indices do not give,
   next to a removed word *)
C1_Witness ==
    /\ pc = "run"
    /\ \E p \in DOMAIN root :
          /\ Len(root[p].topK) >= 2
          /\ root[p].topK[1] > root[p].topK[2]
          /\ freqs[root[p].topK[1]] = freqs[root[p].topK[2]]
    /\ \E p \in DOMAIN root :
          /\ Len(root[p].topK) >= 2
          /\ freqs[root[p].topK[1]] > freqs[root[p].topK[2]]

(* C2 - Result-count bound: in every reachable state, for every prefix and
   every requested count, getTopK returns at most perNodeK entries, perNodeK
   being the capacity configured at that moment. *)
C2_ResultCountBound ==
    \A p \in AllPrefixes, r \in Requests :
       Len(getTopK(Eng, p, r)) <= perNodeK

(* C3 - Empty-prefix global view: after inserts and updates only,
   getTopK("", K) is the K highest-ranked known terms of the whole
   vocabulary (all of them when fewer than K exist). *)
C3_EmptyPrefixGlobalView ==
    IsTopRanked(Eng, getTopK(Eng, <<>>, perNodeK), <<>>, perNodeK)

(* C4 - Highest-ranked matching terms: with the capacity fixed and no removal,
   after inserts and updates, for every non-empty prefix p and 1 <= r <= K,
   getTopK(p, r) is the first min(r, n) of the n known terms starting with p,
   in rank order under the current frequencies. *)
C4_HighestRankedMatching ==
    \A p \in NonEmptyPrefixes, r \in 1..perNodeK :
       IsTopRanked(Eng, getTopK(Eng, p, r), p, r)

(* C5 - Removal exclusion: a word that was removed, and neither inserted nor
   updated since, is in the result of getTopK for none of its prefixes and
   for no requested count, whatever was done to other words meanwhile. *)
C5_RemovalExclusion ==
    \A w \in removed :
       \A p \in PrefixesOf(w), r \in Requests :
          w \notin TextsOf(getTopK(Eng, p, r))

(* "car" is removed while "cart" and "cat" are still listed on its path *)
C5_Witness ==
    /\ car \in removed
    /\ car \in DOMAIN root
    /\ cart \in TextsOf(getTopK(Eng, car, MaxK))
    /\ cat \in TextsOf(getTopK(Eng, Take(car, 2), MaxK))
    /\ cart \in TextsOf(getTopK(Eng, Take(car, 1), MaxK))

(* C6 - Bounded truncation: after inserting, once each and in any order,
   n > K distinct words that share a non-empty prefix p, getTopK(p, r) for
   every r >= K has exactly K entries, the K highest-ranked of the n words. *)
C6_BoundedTruncation ==
    \A p \in NonEmptyPrefixes :
       Cardinality(Matching(Eng, p)) > perNodeK =>
          \A r \in perNodeK..(MaxK + 2) :
             /\ Len(getTopK(Eng, p, r)) = perNodeK
             /\ IsTopRanked(Eng, getTopK(Eng, p, r), p, perNodeK)

(* three words under capacity 2, the first one inserted being the lowest *)
C6_Witness ==
    /\ perNodeK = 2
    /\ Cardinality(Known(Eng)) = 3
    /\ freqs[0] < freqs[1]
    /\ freqs[1] < freqs[2]

(* C7 - Rank order of results: for a prefix whose path exists, getTopK(prefix, r)
   is the first min(r, len) entries of the node's top-K list, each given as the
   word and its current frequency, in rank order (frequency descending, text
   ascending on ties); with cat(5), car(3), cart(10) known, getTopK("ca", 3)
   is [cart(10), cat(5), car(3)]. *)
C7_RankOrder ==
    /\ \A p \in DOMAIN root, r \in 0..(Cardinality(Words) + 1) :
          LET out == getTopK(Eng, p, r)
              v == root[p].topK
          IN /\ Len(out) = Min2(r, Len(v))
             /\ \A k \in 1..Len(out) :
                   /\ out[k][1] = dict[v[k]]
                   /\ out[k][2] = FreqOf(Eng, out[k][1])
             /\ \A k \in 1..(Len(out) - 1) :
                   \/ out[k][2] > out[k + 1][2]
                   \/ out[k][2] = out[k + 1][2] /\ StrLess(out[k][1], out[k + 1][1])
    /\ {<<dict[i], freqs[i]>> : i \in Known(Eng)} = {<<cat, 5>>, <<car, 3>>, <<cart, 10>>}
          => getTopK(Eng, Take(cat, 2), 3) = <<<<cart, 10>>, <<cat, 5>>, <<car, 3>>>>

(* cat(5), car(3), cart(10) were inserted in this order *)
C7_Witness ==
    /\ Cardinality(DOMAIN dict) = 3
    /\ dict[0] = cat /\ freqs[0] = 5 /\ wordSeen[0]
    /\ dict[1] = car /\ freqs[1] = 3 /\ wordSeen[1]
    /\ dict[2] = cart /\ freqs[2] = 10 /\ wordSeen[2]
    /\ Len(getTopK(Eng, Take(cat, 2), 3)) = 3

(* C8 - Idempotent re-insert: for a word that is not known, insert(w, d1)
   followed by insert(w, d2) leaves frequency d1 + d2 and the same dictionary
   and the same top-K lists as the single insert(w, d1 + d2), for all deltas
   that keep the frequency non-negative. *)
C8_IdempotentReinsert ==
    pc = "run" =>
       \A w \in Words, d1 \in 0..MaxFreq, d2 \in (0 - MaxFreq)..MaxFreq :
          (/\ w \notin DOMAIN wordToIndex \/ ~wordSeen[wordToIndex[w]]
           /\ d1 + d2 >= 0
           /\ d1 + d2 <= MaxFreq)
          => /\ FreqOf(insert(insert(Eng, w, d1), w, d2), w) = d1 + d2
             /\ insert(insert(Eng, w, d1), w, d2) = insert(Eng, w, d1 + d2)

KnownPairs(e) == {<<e.dict[i], e.freqs[i]>> : i \in Known(e)}

(* C9 - Round-trip: saveToFile followed by loadFromFile into a new engine
   gives an engine whose known (word, frequency) pairs are exactly those of
   the engine saved, and nothing else; the saved lines are the known words,
   each once, in ascending order of the word, without the words not known. *)
C9_RoundTrip ==
    LET txt == saveToFile(Eng)
        e2 == loadFromFile(NewEngine(perNodeK), txt)
        idxs == SavedIdxs(Eng, DictSize(Eng))
    IN /\ KnownPairs(e2) = KnownPairs(Eng)
       /\ Known(e2) = DOMAIN e2.dict
       /\ {idxs[k] : k \in 1..Len(idxs)} = Known(Eng)
       /\ Len(idxs) = Cardinality(Known(Eng))
       /\ \A k \in 1..(Len(idxs) - 1) : StrLess(dict[idxs[k]], dict[idxs[k + 1]])

(* a removed word, two known words whose indices are not in text order, and a
   frequency of two digits *)
C9_Witness ==
    /\ removed # {}
    /\ \E i \in Known(Eng), j \in Known(Eng) : i < j /\ StrLess(dict[j], dict[i])
    /\ \E i \in Known(Eng) : freqs[i] = 10

(* the word written on a line of the append target *)
LineWord(line) == ReadRecord(line, 1).word

(* C10 - Append only for brand-new terms: insert appends a line only when the
   call is the one that allocates the word's index, so that over any sequence
   of insert, update and remove no word has two lines in the append target. *)
C10_AppendOncePerWord ==
    \A i \in 1..Len(appended), j \in 1..Len(appended) :
       i # j => LineWord(appended[i]) # LineWord(appended[j])

(* C11 - Append failure is reported without rollback: when insert is to append
   a brand-new word and the append file cannot be opened, the call reports the
   failure to its caller (and the dictionary and the lists are as after a
   successful append). *)
C11_AppendFailureReported ==
    io = "append_failed" => ret # "void"

(* C12 - Save failure leaves state intact: a saveToFile whose target cannot be
   opened returns false and changes neither the dictionary, the frequencies,
   the seen flags, the trie nor any top-K list (nor the capacity). *)
C12_SaveFailureIntact ==
    [][io' = "save_failed" =>
          /\ ret' = "false"
          /\ UNCHANGED <<dict, freqs, wordSeen, wordToIndex, root, perNodeK>>]_vars

(* a failed save on an engine that holds a known and a removed word *)
C12_Witness ==
    /\ io = "save_failed"
    /\ ret = "false"
    /\ removed # {}
    /\ \E i \in DOMAIN dict : wordSeen[i] /\ Len(root[Take(dict[i], 1)].topK) >= 1

(* the end of the line that starts at pos: the position of its newline *)
LineEnd(s, pos) ==
    LET c == {i \in pos..Len(s) : s[i] = NL}
    IN IF c = {} THEN Len(s) + 1 ELSE CHOOSE i \in c : \A j \in c : i <= j

(* a record of the keywords file: a word, whitespace, a decimal number with an
   optional sign, and nothing else on the line *)
WellFormedLine(l) ==
    LET p1 == SkipWs(l, 1)
        p2 == WordEnd(l, p1)
        p3 == SkipWs(l, p2)
        p4 == WordEnd(l, p3)
        d1 == IF p3 <= Len(l) /\ l[p3] \in {MINUS, PLUS} THEN p3 + 1 ELSE p3
    IN /\ p1 <= Len(l)
       /\ p3 <= Len(l)
       /\ d1 < p4
       /\ \A i \in d1..(p4 - 1) : IsDigit(l[i])
       /\ SkipWs(l, p4) > Len(l)

(* the lines of s from pos on that precede the first line that is no record *)
RECURSIVE WellFormedLead(_, _)
WellFormedLead(s, pos) ==
    IF pos > Len(s) THEN <<>>
    ELSE LET e == LineEnd(s, pos)
         IN IF WellFormedLine(SubSeq(s, pos, e - 1))
            THEN SubSeq(s, pos, Min2(e, Len(s))) \o WellFormedLead(s, e + 1)
            ELSE <<>>

(* C13 - Load truncates at the first malformed record: after loadFromFile the
   engine is the one obtained by loading only the records that precede the
   first malformed one (non-numeric frequency or missing separator); no record
   at or after it is applied. *)
C13_LoadTruncates ==
    io = "read" => Eng = loadFromFile(NewEngine(perNodeK), WellFormedLead(input, 1))

(* C14 - Queries are pure reads: a call of getTopK, for a prefix in the trie
   or not and for any count, creates no node and leaves every node's children,
   wordIndex and top-K list and the whole dictionary (and the capacity) as
   they were. *)
C14_QueriesArePureReads ==
    [][ret' = "list" => UNCHANGED <<dict, freqs, wordSeen, wordToIndex, root, perNodeK>>]_vars

(* a query has answered with two entries on an engine that holds a removed
   word *)
C14_Witness ==
    /\ ret = "list"
    /\ Len(res) >= 2
    /\ removed # {}

(* C15 - Removing an unknown term is a no-op: remove(text) for a text without
   an identifier in the dictionary, or for the empty text, allocates no
   identifier, creates no node and leaves the dictionary, every wordIndex and
   every top-K list unchanged. *)
C15_RemoveUnknownNoOp ==
    [][\A w \in RemoveTexts :
          ((w = <<>> \/ w \notin DOMAIN wordToIndex) /\ io' = "no_match" /\ Remove(w))
              => UNCHANGED <<dict, freqs, wordSeen, wordToIndex, root, perNodeK>>]_vars

(* a removal found no identifier for its text while the engine holds a known
   word with a non-empty list and a removed word *)
C15_Witness ==
    /\ io = "no_match"
    /\ removed # {}
    /\ DictSize(Eng) < 3
    /\ \E i \in DOMAIN dict : wordSeen[i] /\ Len(root[Take(dict[i], 1)].topK) >= 1

(* C16 - Empty results instead of errors: getTopK(prefix, K) returns the empty
   list whenever K <= 0, and whenever some character of the prefix has no
   matching child on the path from the root. *)
C16_EmptyResults ==
    \A p \in QueryPrefixes, r \in QueryCounts :
        (r <= 0 \/ \E n \in 1..Len(p) : Take(p, n) \notin DOMAIN root)
            => getTopK(Eng, p, r) = <<>>

(* a query has answered with the empty list while the node of "c" lists two
   words and has no child for "x" *)
C16_Witness ==
    /\ ret = "list"
    /\ res = <<>>
    /\ Take(car, 1) \in DOMAIN root
    /\ Len(root[Take(car, 1)].topK) >= 2
    /\ (Take(car, 1) \o <<CharX>>) \notin DOMAIN root

(* C18 - Cache capacity invariant: in every reachable state, the states after
   setPerNodeK changed the capacity included, the top-K list of every trie
   node has length <= the currently configured perNodeK. *)
C18_CacheCapacity ==
    \A p \in DOMAIN root : Len(root[p].topK) <= perNodeK

(* v with every occurrence of x left out, the rest in the order of v *)
Without(v, x) ==
    LET Keep(y) == y # x
    IN SelectSeq(v, Keep)

(* the known words that pass through the node of path p *)
PassingThrough(e, p) == {i \in Known(e) : IsPrefixOf(p, e.dict[i])}

(* C19 - Eviction does not backfill: remove(text) changes the top-K list of
   each node on the path of text only by deleting the index of text if it is
   there; every other listed index stays, in the same relative order, and no
   index is added (the witness: a list shorter than K at a node that more than
   K known words pass through). *)
C19_EvictionNoBackfill ==
    [][\A w \in Words :
          (w \in DOMAIN wordToIndex /\ ret' = "void" /\ w \in removed' /\ Remove(w))
              => /\ DOMAIN root' = DOMAIN root
                 /\ \A p \in PrefixesOf(w) \ {<<>>} :
                        root'[p].topK = Without(root[p].topK, wordToIndex[w])]_vars

(* after a removal the node of "c" lists fewer than K words while more than K
   known words pass through it *)
C19_Witness ==
    /\ removed # {}
    /\ io = "none"
    /\ ret = "void"
    /\ Take(car, 1) \in DOMAIN root
    /\ Len(root[Take(car, 1)].topK) < perNodeK
    /\ Cardinality(PassingThrough(Eng, Take(car, 1))) > perNodeK

(* the words inserted, updated or loaded and not removed since *)
KnownTexts == DOMAIN wordToIndex \ removed

(* C20 - Terminal marker: between operations a trie node has its wordIndex set
   if and only if the text spelled by its path is a word that was inserted,
   updated or loaded and not removed since, and then wordIndex is the index of
   that word; remove clears the marker and keeps the node. *)
C20_TerminalMarker ==
    /\ \A p \in DOMAIN root :
          /\ root[p].wordIndex # -1 <=> p \in KnownTexts
          /\ p \in KnownTexts => root[p].wordIndex = wordToIndex[p]
    /\ \A w \in KnownTexts : w \in DOMAIN root /\ wordSeen[wordToIndex[w]]
    /\ \A w \in removed : w \in DOMAIN root /\ root[w].wordIndex = -1

(* "car" is removed and its node is still there, above the marked node of the
   known word "cart" *)
C20_Witness ==
    /\ car \in removed
    /\ cart \in KnownTexts
    /\ root[car].wordIndex = -1
    /\ root[cart].wordIndex = wordToIndex[cart]

(* the users at most two interactions away from u, u included *)
WithinTwoHops(fe, u) ==
    {u} \cup neighbors(fe, u) \cup UNION {neighbors(fe, v) : v \in neighbors(fe, u)}

(* the posts authored by those users *)
CandidatePosts(fe, u) ==
    {pid \in DOMAIN fe.posts : fe.posts[pid].authorId \in WithinTwoHops(fe, u)}

(* the score of post pid for viewer u *)
ScoreOf(fe, u, pid) == computeScore(fe, u, fe.posts[pid], bfsUsers(fe, u), Now)

(* C17 - Feed top-K: getFeed(userId, K, now) for a known user and K > 0
   returns exactly min(K, number of candidate posts) posts, each a candidate
   with its score, in non-increasing score order, and no candidate left out
   has a strictly higher score than a returned post; the candidates are the
   posts authored by users within 2 hops of userId, userId included. *)
C17_FeedTopK ==
    (feedCall.K > 0 /\ feedCall.userId \in DOMAIN feedEngine.adj) =>
        LET u == feedCall.userId
            r == feedCall.res
            c == CandidatePosts(feedEngine, u)
            got == {r[i][1] : i \in 1..Len(r)}
        IN /\ Len(r) = Min2(feedCall.K, Cardinality(c))
           /\ Cardinality(got) = Len(r)
           /\ got \subseteq c
           /\ \A i \in 1..Len(r) : r[i][2] = ScoreOf(feedEngine, u, r[i][1])
           /\ \A i \in 1..(Len(r) - 1) : r[i][2] >= r[i + 1][2]
           /\ \A pid \in c \ got : \A i \in 1..Len(r) : ScoreOf(feedEngine, u, pid) <= r[i][2]

(* a feed of two posts with different scores was returned, one of them by an
   author two hops from the viewer, while a third candidate was left out *)
C17_Witness ==
    /\ feedCall.K = 2
    /\ Len(feedCall.res) = 2
    /\ feedCall.res[1][2] > feedCall.res[2][2]
    /\ Cardinality(CandidatePosts(feedEngine, feedCall.userId)) = 3
    /\ \E i \in 1..2 :
          bfsUsers(feedEngine, feedCall.userId)[feedEngine.posts[feedCall.res[i][1]].authorId] = 2

(* C21 - Cache membership: in every reachable state, every index in the top-K
   list of a node denotes a word of the dictionary whose text has the path of
   that node as a prefix. *)
C21_CacheMembership ==
    \A p \in DOMAIN root :
       \A i \in 1..Len(root[p].topK) :
          /\ root[p].topK[i] \in DOMAIN dict
          /\ IsPrefixOf(p, dict[root[p].topK[i]])

(* the node of "ca" lists "cat" and another word while the node of "car",
   which exists beside it, lists a word and not "cat" *)
C21_Witness ==
    /\ Take(cat, 2) \in DOMAIN root
    /\ car \in DOMAIN root
    /\ cat \in DOMAIN wordToIndex
    /\ Len(root[Take(cat, 2)].topK) >= 2
    /\ InSeq(wordToIndex[cat], root[Take(cat, 2)].topK)
    /\ Len(root[car].topK) >= 1
    /\ ~InSeq(wordToIndex[cat], root[car].topK)

(* the indices in use are 0..N-1 for the N texts seen, one index per text and
   one text per index *)
DenseIds ==
    LET N == Cardinality(DOMAIN wordToIndex)
    IN /\ DOMAIN dict = 0..(N - 1)
       /\ DOMAIN freqs = 0..(N - 1)
       /\ DOMAIN wordSeen = 0..(N - 1)
       /\ \A w \in DOMAIN wordToIndex :
             wordToIndex[w] \in 0..(N - 1) /\ dict[wordToIndex[w]] = w
       /\ \A i \in 0..(N - 1) :
             dict[i] \in DOMAIN wordToIndex /\ wordToIndex[dict[i]] = i

(* a step keeps the index and the text of every word it found, and a removal
   only zeroes the frequency and clears the seen flag of its word *)
StableIds ==
    /\ \A w \in DOMAIN wordToIndex :
          /\ w \in DOMAIN wordToIndex'
          /\ wordToIndex'[w] = wordToIndex[w]
          /\ dict'[wordToIndex[w]] = w
    /\ \A w \in Words :
          (w \in DOMAIN wordToIndex /\ w \in removed' /\ ret' = "void" /\ Remove(w))
              => /\ wordToIndex' = wordToIndex
                 /\ dict' = dict
                 /\ DOMAIN freqs' = DOMAIN freqs
                 /\ freqs'[wordToIndex[w]] = 0
                 /\ ~wordSeen'[wordToIndex[w]]

(* C22 - Stable dense identifiers: in every reachable state with N distinct
   texts seen the indices in use are exactly 0..N-1, each text maps to one
   index and each index to one text, and the index of an existing word is
   never changed by a later insert, update, remove or load; remove only zeroes
   the frequency and clears the seen flag. *)
C22_StableDenseIds == []DenseIds /\ [][StableIds]_vars

(* three texts have been seen, one of them is removed and still holds its
   index with frequency 0, and a keywords file has just been loaded again *)
C22_Witness ==
    /\ Cardinality(DOMAIN wordToIndex) = 3
    /\ io = "read"
    /\ \E w \in removed : freqs[wordToIndex[w]] = 0 /\ dict[wordToIndex[w]] = w
    /\ \E w \in DOMAIN wordToIndex : wordSeen[wordToIndex[w]] /\ wordToIndex[w] = 2

(* C23 - Nodes are never deleted: across any sequence of operations the set
   of trie nodes, named by their paths, only grows; remove(text) deletes no
   node on the path of text, and the root exists in every state. *)
C23_NodesNeverDeleted ==
    /\ [](<<>> \in DOMAIN root)
    /\ [][DOMAIN root \subseteq DOMAIN root']_vars

(* "cart" is removed and every node ever made is still there, the node of
   "cart" among them: a leaf that lists nothing and marks no word *)
C23_Witness ==
    /\ cart \in removed
    /\ DOMAIN root = UNION {PrefixesOf(w) : w \in Words}
    /\ root[cart].topK = <<>>
    /\ root[cart].wordIndex = -1

(* C24 - Exact top-K under growth only: with the capacity fixed, after any
   sequence of insert calls with non-negative deltas and nothing else, the
   top-K list of every node but the root is the first min(K, n), in rank
   order, of the n known words whose text passes through that node. *)
C24_ExactTopKUnderGrowth ==
    \A p \in DOMAIN root \ {<<>>} :
       LET v == root[p].topK
           M == Matching(Eng, p)
       IN /\ Len(v) = Min2(perNodeK, Cardinality(M))
          /\ \A k \in 1..Len(v) :
                /\ v[k] \in M
                /\ Cardinality({j \in M : RanksBefore(Eng, j, v[k])}) = k - 1

(* three words pass through the node of "c", which is full, and the word
   inserted first has been overtaken by a later insert and is not listed *)
C24_Witness ==
    /\ Cardinality(Matching(Eng, Take(car, 1))) = 3
    /\ Len(root[Take(car, 1)].topK) = perNodeK
    /\ ~InSeq(0, root[Take(car, 1)].topK)
    /\ \E i \in DOMAIN freqs : freqs[i] = MaxFreq

(* the step is an insert, an update or a remove on text t; the tests before
   each action follow from it and spare its evaluation on most steps *)
MutationOn(t) ==
    /\ ret' = "void"
    /\ \/ /\ t \in removed' \/ io' = "no_match"
          /\ Remove(t)
       \/ /\ t \in DOMAIN wordToIndex'
          /\ t \notin removed'
          /\ \/ \E f \in 0..AppendMaxFreq :
                   freqs'[wordToIndex'[t]] = f /\ Update(t, f)
             \/ \E d \in 0..AppendMaxFreq :
                   freqs'[wordToIndex'[t]] = FreqOf(Eng, t) + d
                       /\ Insert(t, d, FALSE, TRUE, AppendMaxFreq)

(* nothing off the path of t, and no word but t, is changed by the step *)
OffPathUnchanged(t) ==
    /\ \A p \in DOMAIN root :
          ~(p # <<>> /\ IsPrefixOf(p, t))
              => /\ p \in DOMAIN root'
                 /\ root'[p].topK = root[p].topK
                 /\ root'[p].wordIndex = root[p].wordIndex
    /\ \A i \in DOMAIN dict :
          dict[i] # t
              => /\ i \in DOMAIN dict' /\ dict'[i] = dict[i]
                 /\ freqs'[i] = freqs[i]
                 /\ wordSeen'[i] = wordSeen[i]

(* C25 - Mutations touch only the word's own path: insert, update or remove
   on a text t leaves unchanged the top-K list and the wordIndex of every node
   whose path is not a non-empty prefix of t, and the frequency and the seen
   flag of every word other than t. *)
C25_OwnPathOnly ==
    [][\A t \in Words : MutationOn(t) => OffPathUnchanged(t)]_vars

(* "cart" is removed while "cat", off its path, is known with the highest
   frequency and listed at its own node, and "car" is known *)
C25_Witness ==
    /\ cart \in removed
    /\ ret = "void"
    /\ cat \in KnownTexts
    /\ car \in KnownTexts
    /\ freqs[wordToIndex[cat]] = AppendMaxFreq
    /\ root[cat].topK = <<wordToIndex[cat]>>
    /\ root[cart].topK = <<>>

(* C26 - No duplicates and no removed words in the lists: in every state
   between operations no top-K list holds the same index twice, and every
   listed index belongs to a word that is known (seen, and not removed since
   it was last inserted, updated or loaded). *)
C26_NoDuplicatesNoRemoved ==
    \A p \in DOMAIN root :
       LET v == root[p].topK
       IN /\ \A i \in 1..Len(v), j \in 1..Len(v) : v[i] = v[j] => i = j
          /\ \A i \in 1..Len(v) :
                /\ v[i] \in DOMAIN wordSeen
                /\ wordSeen[v[i]]
                /\ dict[v[i]] \in KnownTexts

(* "car" is removed; the node of "ca" above it lists two other words and the
   node of "car" itself lists "cart" only *)
C26_Witness ==
    /\ car \in removed
    /\ cart \in KnownTexts
    /\ Len(root[Take(car, 2)].topK) = 2
    /\ root[car].topK = <<wordToIndex[cart]>>

====
